---- MODULE Spec2Model ----
(***************************************************************************)
(* Model of the two weather webhook handlers of weather-webhook:           *)
(*   multi-day handler   src/unnamed/part_000  (variant "multi")           *)
(*   single-day handler  src/api/weather.js    (variant "single")          *)
(*                                                                         *)
(* One invocation of a handler is a state machine whose steps are the      *)
(* statements of the handler between two awaits.  JavaScript values are    *)
(* modelled as follows:                                                    *)
(*   - an optional value (a body field, a provider field) is <<>> when it  *)
(*     is undefined and <<v>> when it has the value v;                     *)
(*   - a string is the sequence of its characters, so that includes(),     *)
(*     toLowerCase() and concatenation are computed, not assumed;          *)
(*   - a date string is the number of its calendar day;                    *)
(*   - a provider temperature is in tenths of a degree and a provider      *)
(*     probability in thousandths, so that Math.round has work to do.      *)
(***************************************************************************)
EXTENDS Integers, Sequences, FiniteSets, TLC

VARIABLES
    method,          \* req.method
    variant,         \* which handler serves the request: "multi" or "single"
    apiKey,          \* process.env.GOOGLE_WEATHER_API_KEY is set
    body,            \* req.body: <<>> when there is no parsed body, else <<fields>>
    pc,              \* position of the handler
    latitude,        \* let latitude
    longitude,       \* let longitude
    events,          \* outbound calls, their returns and the responses, in order
    geoReply,        \* what the geocoding collaborator returned
    feed,            \* what the forecast collaborator returned
    dailyForecasts,  \* const dailyForecasts of the multi-day handler
    sent,            \* the responses sent through res, in order
    escaped,         \* an exception left the handler
    condText,        \* the fragments of the argument of a direct call of simplifyCondition
    condSimple       \* <<>> or <<result of that call>>

vars == <<method, variant, apiKey, body, pc, latitude, longitude, events,
          geoReply, feed, dailyForecasts, sent, escaped, condText, condSimple>>

(***************************************************************************)
(* Bounds of the model.                                                    *)
(***************************************************************************)
\* check_out_date ranges over the days 0 .. CheckInDay + MaxNights
MaxNights == 8
\* a condition text passed to simplifyCondition directly is made of at most
\* MaxFragments fragments of Vocabulary
MaxFragments == 2

(***************************************************************************)
(* JavaScript values.                                                      *)
(***************************************************************************)
Absent == <<>>

Some(v) == <<v>>

\* !x for a number-valued optional: undefined and 0 are falsy
TruthyNum(x) == x # Absent /\ x[1] # 0

\* !x for a string-valued optional: undefined and "" are falsy
TruthyStr(x) == x # Absent /\ x[1] # <<>>

\* a || b || dflt over number-valued optionals
OrElseNum(a, b, dflt) == IF TruthyNum(a) THEN a[1] ELSE IF TruthyNum(b) THEN b[1] ELSE dflt

\* Math.round of n/d for d > 0: the nearest integer, halves going up
RoundDiv(n, d) == (2 * n + d) \div (2 * d)

\* Math.min(a, b)
Min(a, b) == IF a <= b THEN a ELSE b

\* Math.max(...xs) and Math.min(...xs) of a non-empty sequence of numbers
MaxOf(xs) == CHOOSE m \in {xs[i] : i \in DOMAIN xs} : \A i \in DOMAIN xs : xs[i] <= m

MinOf(xs) == CHOOSE m \in {xs[i] : i \in DOMAIN xs} : \A i \in DOMAIN xs : m <= xs[i]

\* xs.reduce((a, b) => a + b, 0)
RECURSIVE SumOf(_)
SumOf(xs) == IF xs = <<>> THEN 0 ELSE xs[1] + SumOf(Tail(xs))

\* [...new Set(xs)]: the first occurrence of every value, in order
RECURSIVE Unique(_)
Unique(xs) ==
    IF xs = <<>> THEN <<>>
    ELSE LET front == Unique(SubSeq(xs, 1, Len(xs) - 1))
             last == xs[Len(xs)]
         IN IF \E i \in DOMAIN front : front[i] = last THEN front ELSE Append(front, last)

\* xs.slice(0, n)
Slice(xs, n) == SubSeq(xs, 1, Min(n, Len(xs)))

(***************************************************************************)
(* Strings.                                                                *)
(***************************************************************************)
UpperCase == <<"A","B","C","D","E","F","G","H","I","J","K","L","M","N","O","P","Q","R","S","T","U","V","W","X","Y","Z">>

LowerCase == <<"a","b","c","d","e","f","g","h","i","j","k","l","m","n","o","p","q","r","s","t","u","v","w","x","y","z">>

\* the lower-case letter of every upper-case letter
LowerOf == [c \in {UpperCase[i] : i \in DOMAIN UpperCase} |->
               LowerCase[CHOOSE i \in DOMAIN UpperCase : UpperCase[i] = c]]

\* one character of String.prototype.toLowerCase
LowerChar(c) == IF c \in DOMAIN LowerOf THEN LowerOf[c] ELSE c

\* s.toLowerCase()
toLowerCase(s) == [i \in DOMAIN s |-> LowerChar(s[i])]

\* s.includes(sub)
includes(s, sub) ==
    \E k \in 0..(Len(s) - Len(sub)) : \A j \in 1..Len(sub) : s[k + j] = sub[j]

\* a value that is truthy and not a string (a number, an object): calling a
\* string method on it throws a TypeError
NonString == <<"#not-a-string">>

isString(s) == s # NonString

kw_rain == <<"r","a","i","n">>
kw_drizzle == <<"d","r","i","z","z","l","e">>
kw_shower == <<"s","h","o","w","e","r">>
kw_snow == <<"s","n","o","w">>
kw_sleet == <<"s","l","e","e","t">>
kw_ice == <<"i","c","e">>
kw_thunder == <<"t","h","u","n","d","e","r">>
kw_storm == <<"s","t","o","r","m">>
kw_cloud == <<"c","l","o","u","d">>
kw_overcast == <<"o","v","e","r","c","a","s","t">>
kw_clear == <<"c","l","e","a","r">>
kw_sunny == <<"s","u","n","n","y">>
kw_partly == <<"p","a","r","t","l","y">>
kw_mostly == <<"m","o","s","t","l","y">>
kw_fog == <<"f","o","g">>
kw_mist == <<"m","i","s","t">>
kw_haze == <<"h","a","z","e">>

Rainy == <<"R","a","i","n","y">>
Snow == <<"S","n","o","w">>
Stormy == <<"S","t","o","r","m","y">>
Cloudy == <<"C","l","o","u","d","y">>
Sunny == <<"S","u","n","n","y">>
PartlyCloudy == <<"P","a","r","t","l","y"," ","C","l","o","u","d","y">>
Foggy == <<"F","o","g","g","y">>

\* lower.includes(k) for some k of keys
includesAny(lower, keys) == \E k \in keys : includes(lower, k)

\* simplifyCondition matching the keywords against the text as given
simplifyCondition_caseSensitive(condition) ==
    LET lower == condition
    IN  IF includesAny(lower, {kw_rain, kw_drizzle, kw_shower}) THEN Rainy
        ELSE IF includesAny(lower, {kw_snow, kw_sleet, kw_ice}) THEN Snow
        ELSE IF includesAny(lower, {kw_thunder, kw_storm}) THEN Stormy
        ELSE IF includesAny(lower, {kw_cloud, kw_overcast}) THEN Cloudy
        ELSE IF includesAny(lower, {kw_clear, kw_sunny}) THEN Sunny
        ELSE IF includesAny(lower, {kw_partly, kw_mostly}) THEN PartlyCloudy
        ELSE IF includesAny(lower, {kw_fog, kw_mist, kw_haze}) THEN Foggy
        ELSE PartlyCloudy

\* function simplifyCondition(condition), for a string argument
simplifyCondition(condition) ==
    LET lower == toLowerCase(condition)
    IN  IF includesAny(lower, {kw_rain, kw_drizzle, kw_shower}) THEN Rainy
        ELSE IF includesAny(lower, {kw_snow, kw_sleet, kw_ice}) THEN Snow
        ELSE IF includesAny(lower, {kw_thunder, kw_storm}) THEN Stormy
        ELSE IF includesAny(lower, {kw_cloud, kw_overcast}) THEN Cloudy
        ELSE IF includesAny(lower, {kw_clear, kw_sunny}) THEN Sunny
        ELSE IF includesAny(lower, {kw_partly, kw_mostly}) THEN PartlyCloudy
        ELSE IF includesAny(lower, {kw_fog, kw_mist, kw_haze}) THEN Foggy
        ELSE PartlyCloudy

(***************************************************************************)
(* The multi-day handler's pure parts (src/unnamed/part_000).              *)
(***************************************************************************)
\* Math.min(numberOfNights, 7): the cap on the days shown
DayCap == 7

\* the default of temp.high || temp.max || 75
DefaultHigh == 75

\* the default of temp.low || temp.min || 60
DefaultLow == 60

\* Math.round(temp.high || temp.max || 75)
tempHighOf(raw) == RoundDiv(OrElseNum(raw.high, raw.max, DefaultHigh * 10), 10)

\* Math.round(temp.low || temp.min || 60)
tempLowOf(raw) == RoundDiv(OrElseNum(raw.low, raw.min, DefaultLow * 10), 10)

\* Math.round((precip.probability || precip.chance || 0) * 100)
precipChanceOf(raw) == RoundDiv(OrElseNum(raw.probability, raw.chance, 0), 10)

\* condition.description || condition.main || 'Partly Cloudy'
conditionOf(raw) ==
    IF TruthyStr(raw.description) THEN raw.description[1]
    ELSE IF TruthyStr(raw.main) THEN raw.main[1]
    ELSE PartlyCloudy

\* allForecasts.find(day => new Date(day.date).toDateString() === date.toDateString()):
\* <<>> or <<the first entry of that calendar day>>
findDay(allForecasts, date) ==
    IF \E k \in DOMAIN allForecasts : allForecasts[k].date = date
    THEN Some(allForecasts[CHOOSE k \in DOMAIN allForecasts :
                  /\ allForecasts[k].date = date
                  /\ \A j \in 1..(k - 1) : allForecasts[j].date # date])
    ELSE Absent

\* the object pushed for day i of the stay
dayRecord(raw, checkinDate, i, daysToShow) ==
    [ date |-> checkinDate + i,
      is_checkin |-> (i = 0),
      is_checkout |-> (i = daysToShow - 1),
      temp_high |-> tempHighOf(raw),
      temp_low |-> tempLowOf(raw),
      condition |-> conditionOf(raw),
      condition_simple |-> simplifyCondition(conditionOf(raw)),
      precipitation_chance |-> precipChanceOf(raw) ]

\* the loop for (let i = 0; i < daysToShow; i++), from i on
RECURSIVE buildDaily(_, _, _, _)
buildDaily(allForecasts, checkinDate, i, daysToShow) ==
    IF i >= daysToShow THEN <<>>
    ELSE LET dayForecast == findDay(allForecasts, checkinDate + i)
             rest == buildDaily(allForecasts, checkinDate, i + 1, daysToShow)
         IN IF dayForecast = Absent THEN rest
            ELSE <<dayRecord(dayForecast[1], checkinDate, i, daysToShow)>> \o rest

\* the loop throws: simplifyCondition calls toLowerCase on a matched entry's
\* condition text that is not a string
buildDailyThrows(allForecasts, checkinDate, daysToShow) ==
    \E i \in 0..(daysToShow - 1) :
        LET dayForecast == findDay(allForecasts, checkinDate + i)
        IN dayForecast # Absent /\ ~isString(conditionOf(dayForecast[1]))

\* `${city}` in a template literal
interpolate(city) == IF city = Absent THEN <<"u","n","d","e","f","i","n","e","d">> ELSE city[1]

\* the qualitative clause of generateSummary
summaryClause(forecasts, avgPrecip) ==
    LET uniqueConditions == Unique([k \in DOMAIN forecasts |-> forecasts[k].condition_simple])
    IN  IF Len(uniqueConditions) = 1 THEN toLowerCase(uniqueConditions[1])
        ELSE IF avgPrecip > 50 THEN <<"m","o","s","t","l","y"," ","r","a","i","n","y">>
        ELSE IF avgPrecip > 30
             THEN <<"m","i","x","e","d"," ","w","i","t","h"," ","s","o","m","e"," ","r","a","i","n">>
        ELSE <<"p","l","e","a","s","a","n","t">>

\* function generateSummary: the sentence
\*   The weather for your <nights>-night stay in <city> will be <clause>
\*   with temperatures ranging from <low>°F to <high>°F.
\* as the values put into its holes
generateSummary(forecasts, avgHigh, avgLow, avgPrecip, nights, city) ==
    [ nights |-> nights,
      city |-> interpolate(city),
      clause |-> summaryClause(forecasts, avgPrecip),
      low |-> avgLow,
      high |-> avgHigh ]

\* the items pushed by generatePackingList, before deduplication and slicing
packingItems(maxHigh, minLow, avgPrecip, forecasts) ==
    (IF maxHigh > 85
        THEN <<"Light, breathable clothing", "Sunscreen and sunglasses", "Hat for sun protection">>
     ELSE IF maxHigh > 75 THEN <<"Summer clothing", "Sunscreen">>
     ELSE IF maxHigh > 65 THEN <<"Light layers">>
     ELSE IF maxHigh < 60 THEN <<"Warm clothing", "Jacket or coat">>
     ELSE <<>>)
    \o (IF minLow < 60 THEN <<"Warm layers for evenings">> ELSE <<>>)
    \o (IF maxHigh - minLow > 25 THEN <<"Versatile layers for temperature changes">> ELSE <<>>)
    \o (IF avgPrecip > 60 THEN <<"Rain jacket", "Waterproof shoes", "Umbrella">>
        ELSE IF avgPrecip > 30 THEN <<"Rain jacket or umbrella">>
        ELSE <<>>)
    \o (IF \E k \in DOMAIN forecasts : forecasts[k].condition_simple = Snow
        THEN <<"Winter boots", "Warm winter coat">>
        ELSE <<>>)

\* generatePackingList returning every item pushed
generatePackingList_noLimit(maxHigh, minLow, avgPrecip, forecasts) ==
    Unique(packingItems(maxHigh, minLow, avgPrecip, forecasts))

\* function generatePackingList
generatePackingList(maxHigh, minLow, avgPrecip, forecasts) ==
    Slice(Unique(packingItems(maxHigh, minLow, avgPrecip, forecasts)), 5)

\* function getFallbackWeather(checkInDate, checkOutDate, city) of the multi-day handler
getFallbackWeather(checkInDate, checkOutDate, city) ==
    [ success |-> FALSE,
      show_weather |-> FALSE,
      summary |-> [city |-> IF TruthyStr(city) THEN city ELSE Absent],
      packing_recommendations |->
          <<"Pack comfortable clothes", "Check local forecast before departure">>,
      stats |-> [check_in_date |-> checkInDate, check_out_date |-> checkOutDate],
      fallback |-> TRUE ]

\* dailyForecasts.filter(d => d.precipitation_chance >= 40).length
rainyDaysOf_inclusive(forecasts) ==
    Cardinality({k \in DOMAIN forecasts : forecasts[k].precipitation_chance >= 40})

\* dailyForecasts.filter(d => d.precipitation_chance > 40).length
rainyDaysOf(forecasts) ==
    Cardinality({k \in DOMAIN forecasts : forecasts[k].precipitation_chance > 40})

\* Math.min(numberOfNights, 7) without the cap
daysToShowOf_uncapped(numberOfNights) == numberOfNights

\* const daysToShow = Math.min(numberOfNights, 7)
daysToShowOf(numberOfNights) == Min(numberOfNights, DayCap)

\* the success response of the multi-day handler; days_until_checkin, which
\* depends on the clock, and the copied property name and id are left out
multiResponse(b, forecasts) ==
    LET numberOfNights == b.check_out_date[1] - b.check_in_date[1]
        tempHighs == [k \in DOMAIN forecasts |-> forecasts[k].temp_high]
        tempLows == [k \in DOMAIN forecasts |-> forecasts[k].temp_low]
        precipChances == [k \in DOMAIN forecasts |-> forecasts[k].precipitation_chance]
        avgHigh == RoundDiv(SumOf(tempHighs), Len(tempHighs))
        avgLow == RoundDiv(SumOf(tempLows), Len(tempLows))
        maxHigh == MaxOf(tempHighs)
        minLow == MinOf(tempLows)
        avgPrecip == RoundDiv(SumOf(precipChances), Len(precipChances))
        rainyDays == rainyDaysOf(forecasts)
    IN  [ success |-> TRUE,
          show_weather |-> TRUE,
          summary |-> generateSummary(forecasts, avgHigh, avgLow, avgPrecip,
                                      numberOfNights, b.property_city),
          daily_forecasts |-> forecasts,
          packing_recommendations |-> generatePackingList(maxHigh, minLow, avgPrecip, forecasts),
          stats |-> [ check_in_date |-> b.check_in_date,
                      check_out_date |-> b.check_out_date,
                      number_of_nights |-> numberOfNights,
                      days_showing |-> daysToShowOf(numberOfNights),
                      avg_high |-> avgHigh,
                      avg_low |-> avgLow,
                      max_high |-> maxHigh,
                      min_low |-> minLow,
                      avg_precipitation |-> avgPrecip,
                      rainy_days |-> rainyDays,
                      has_rain |-> (rainyDays > 0) ],
          location |-> [ city |-> IF TruthyStr(b.property_city) THEN b.property_city[1]
                                  ELSE <<"y","o","u","r"," ","d","e","s","t","i","n","a","t","i","o","n">>,
                         state |-> IF TruthyStr(b.property_state) THEN b.property_state[1]
                                   ELSE <<>> ] ]

(***************************************************************************)
(* The single-day handler's pure parts (src/api/weather.js).               *)
(***************************************************************************)
\* function generateWeatherSummary(high, low, condition, precipChance): the sentence
\*   <condition> with temperatures ranging from <low>°F to <high>°F<rain clause>.
\* as the values put into its holes
generateWeatherSummary(high, low, condition, precipChance) ==
    [ condition |-> condition,
      low |-> low,
      high |-> high,
      rain |-> IF precipChance > 60 THEN "There's a % chance of rain"
               ELSE IF precipChance > 30 THEN "with a slight chance of rain"
               ELSE "" ]

\* function getPackingSuggestion(high, low, precipChance): the items joined into
\* the sentence, none standing for the sentence used when nothing was pushed
getPackingSuggestion(high, low, precipChance) ==
    LET suggestions ==
            (IF high > 85 THEN <<"light, breathable clothing", "sunscreen", "sunglasses">>
             ELSE IF high > 75 THEN <<"comfortable summer attire", "sunscreen">>
             ELSE IF high > 65 THEN <<"layers for changing temperatures">>
             ELSE IF high < 60 THEN <<"warm clothing", "a jacket or sweater">>
             ELSE <<>>)
            \o (IF precipChance > 60 THEN <<"rain jacket and umbrella">>
                ELSE IF precipChance > 30 THEN <<"an umbrella just in case">>
                ELSE <<>>)
            \o (IF low < 55 THEN <<"warm evening wear">> ELSE <<>>)
    IN  Slice(suggestions, 4)

\* function getFallbackWeather(checkInDate, city) of the single-day handler; its
\* two fixed texts (condition, packing_suggestion) are left out
getFallbackWeatherSingle(checkInDate, city) ==
    [ success |-> FALSE,
      show_weather |-> FALSE,
      temperature_high |-> 75,
      temperature_low |-> 60,
      weather_summary |-> [city |-> IF TruthyStr(city) THEN city ELSE Absent],
      check_in_date |-> checkInDate,
      days_until_checkin |-> 3,
      fallback |-> TRUE ]

\* the success response of the single-day handler; days_until_checkin, the wind
\* and amount fields and the copied property name and id are left out
singleResponse(b, checkinForecast) ==
    LET tempHigh == tempHighOf(checkinForecast)
        tempLow == tempLowOf(checkinForecast)
        precipChance == precipChanceOf(checkinForecast)
    IN  [ success |-> TRUE,
          show_weather |-> TRUE,
          temperature_high |-> tempHigh,
          temperature_low |-> tempLow,
          temperature_avg |-> RoundDiv(tempHigh + tempLow, 2),
          condition |-> conditionOf(checkinForecast),
          precipitation_chance |-> precipChance,
          weather_summary |->
              generateWeatherSummary(tempHigh, tempLow,
                  IF TruthyStr(checkinForecast.description) THEN checkinForecast.description[1]
                  ELSE <<"P","l","e","a","s","a","n","t"," ","w","e","a","t","h","e","r">>,
                  precipChance),
          packing_suggestion |-> getPackingSuggestion(tempHigh, tempLow, precipChance),
          check_in_date |-> b.check_in_date,
          forecast_date |-> checkinForecast.date,
          property_city |-> IF TruthyStr(b.property_city) THEN b.property_city[1]
                            ELSE <<"y","o","u","r"," ","d","e","s","t","i","n","a","t","i","o","n">>,
          property_state |-> IF TruthyStr(b.property_state) THEN b.property_state[1] ELSE <<>> ]

(***************************************************************************)
(* What both handlers share: the location resolver.                        *)
(***************************************************************************)
\* if (!latitude || !longitude) taken with every request
needsGeocode_always(lat, lng) == TRUE

\* if (!latitude || !longitude)
needsGeocode(lat, lng) == ~TruthyNum(lat) \/ ~TruthyNum(lng)

\* let addressString, after the two if statements that build it
addressStringOf(b) ==
    LET base == IF TruthyStr(b.property_address) THEN b.property_address[1]
                ELSE IF TruthyStr(b.property_city) /\ TruthyStr(b.property_state)
                     THEN b.property_city[1] \o <<",", " ">> \o b.property_state[1]
                ELSE IF TruthyStr(b.property_city) THEN b.property_city[1]
                ELSE <<>>
    IN  IF TruthyStr(b.property_zip_code) /\ ~includes(base, b.property_zip_code[1])
        THEN base \o <<" ">> \o b.property_zip_code[1]
        ELSE base

\* the fallback payload of the handler serving the request
fallbackOf(v, b) ==
    IF v = "multi"
    THEN getFallbackWeather(b.check_in_date, b.check_out_date, b.property_city)
    ELSE getFallbackWeatherSingle(b.check_in_date, b.property_city)

\* if (!check_in_date || !check_out_date), if (!check_in_date)
missingDates(v, b) ==
    IF v = "multi"
    THEN b.check_in_date = Absent \/ b.check_out_date = Absent
    ELSE b.check_in_date = Absent

\* the geocoding reply is turned away: status is not 'OK' or there is no first result
geocodeRefused(r) == r.status # "OK" \/ r.results = <<>>

\* the handler checks geocodeResponse.ok
checksGeocodeOk(v) == v = "single"

(***************************************************************************)
(* The inputs: requests and collaborator replies.                          *)
(***************************************************************************)
Variants == {"multi", "single"}

\* the day of check_in_date when it is given
CheckInDays == {1}

\* the days the forecast provider may have an entry for: the first two days
\* of the stay and its eighth day
FeedDays == {1, 2, 8}

txt_5Elm == <<"5"," ","E","l","m">>
txt_5Elm787 == <<"5"," ","E","l","m"," ","7","8","7">>
txt_787 == <<"7","8","7">>
txt_Rio == <<"R","i","o">>
txt_RJ == <<"R","J">>

\* the bodies a request may carry; property_name and property_id are only
\* copied into the response and are left out
Bodies(v) ==
    [ check_in_date : {Absent} \cup {Some(d) : d \in CheckInDays},
      check_out_date : IF v = "multi"
                       THEN {Absent} \cup {Some(d) : d \in 0..(MaxNights + 1)}
                       ELSE {Absent},
      property_latitude : {Absent, Some(0), Some(40)},
      property_longitude : {Absent, Some(-74)},
      property_address : {Absent, Some(txt_5Elm), Some(txt_5Elm787)},
      property_city : {Absent, Some(txt_Rio)},
      property_state : {Absent, Some(txt_RJ)},
      property_zip_code : {Absent, Some(txt_787)} ]

\* the replies of the geocoding collaborator: the fetch rejects, or resolves
\* with an HTTP status, a body that parses or not, its status field and results
GeoReplies ==
    [ outcome : {"reject"}, ok : {FALSE}, parses : {FALSE}, status : {""}, results : {<<>>} ]
    \cup
    [ outcome : {"response"}, ok : BOOLEAN, parses : {FALSE}, status : {""}, results : {<<>>} ]
    \cup
    [ outcome : {"response"}, ok : BOOLEAN, parses : {TRUE},
      status : {"OK", "ZERO_RESULTS"},
      results : { <<>>,
                  <<[geometry |-> TRUE, lat |-> 41, lng |-> -73]>>,
                  <<[geometry |-> FALSE, lat |-> 0, lng |-> 0]>> } ]

txt_Sunny == <<"S","u","n","n","y">>
txt_Thunderstorm == <<"T","h","u","n","d","e","r","s","t","o","r","m">>
txt_Light_rain == <<"L","i","g","h","t"," ","r","a","i","n">>
txt_Snow == <<"S","n","o","w">>
txt_windy == <<"w","i","n","d","y">>

\* what one entry of the provider's daily list may carry besides its date
RawShapes ==
    { [ high |-> Some(896), max |-> Absent, low |-> Some(701), min |-> Absent,
        probability |-> Some(100), chance |-> Absent,
        description |-> Some(txt_Sunny), main |-> Absent ],
      [ high |-> Absent, max |-> Some(880), low |-> Absent, min |-> Some(450),
        probability |-> Absent, chance |-> Some(800),
        description |-> Absent, main |-> Some(txt_Thunderstorm) ],
      [ high |-> Some(500), max |-> Absent, low |-> Absent, min |-> Absent,
        probability |-> Some(400), chance |-> Absent,
        description |-> Some(txt_Light_rain), main |-> Absent ],
      [ high |-> Absent, max |-> Absent, low |-> Absent, min |-> Absent,
        probability |-> Absent, chance |-> Absent,
        description |-> Absent, main |-> Absent ],
      [ high |-> Some(300), max |-> Absent, low |-> Some(0), min |-> Absent,
        probability |-> Some(410), chance |-> Absent,
        description |-> Some(txt_Snow), main |-> Absent ],
      [ high |-> Some(724), max |-> Absent, low |-> Some(615), min |-> Absent,
        probability |-> Some(405), chance |-> Absent,
        description |-> Some(txt_windy), main |-> Absent ],
      [ high |-> Some(896), max |-> Absent, low |-> Some(701), min |-> Absent,
        probability |-> Some(100), chance |-> Absent,
        description |-> Some(NonString), main |-> Absent ] }

\* one entry of the provider's daily list
rawEntry(d, shape) ==
    [ date |-> d,
      high |-> shape.high, max |-> shape.max, low |-> shape.low, min |-> shape.min,
      probability |-> shape.probability, chance |-> shape.chance,
      description |-> shape.description, main |-> shape.main ]

\* the entries of f, a function from days to shapes, in the order of their days
RECURSIVE chronological(_)
chronological(f) ==
    IF DOMAIN f = {} THEN <<>>
    ELSE LET d == CHOOSE x \in DOMAIN f : \A y \in DOMAIN f : x <= y
         IN <<rawEntry(d, f[d])>> \o chronological([y \in DOMAIN f \ {d} |-> f[y]])

\* a forecast reply: the fetch rejects, or resolves with an HTTP status, a body
\* that parses or not, and its daily list (<<>> when the body has none)
feedReply(outcome, ok, parses, daily) ==
    [ outcome |-> outcome, ok |-> ok, parses |-> parses, daily |-> daily ]

\* the replies that carry no list
FailedFeeds ==
    { feedReply("reject", FALSE, FALSE, Absent),
      feedReply("response", FALSE, FALSE, Absent),
      feedReply("response", TRUE, FALSE, Absent),
      feedReply("response", TRUE, TRUE, Absent) }

\* every chronological daily list over FeedDays and RawShapes
RichFeeds ==
    FailedFeeds \cup
    UNION { { feedReply("response", TRUE, TRUE, Some(chronological(f))) : f \in [D -> RawShapes] }
            : D \in SUBSET FeedDays }

\* a short menu of daily lists
CoarseFeeds ==
    FailedFeeds \cup
    { feedReply("response", TRUE, TRUE, Some(chronological(f))) :
        f \in UNION { [D -> {s \in RawShapes : s.description = Absent}]
                      : D \in {{}, {1}, {1, 2}} } }

\* the request carries its coordinates and no address field
plainCoordinates(b) ==
    /\ TruthyNum(b.property_latitude) /\ TruthyNum(b.property_longitude)
    /\ b.property_address = Absent /\ b.property_state = Absent
    /\ b.property_zip_code = Absent

\* the forecast replies explored for a request: every list for a request with
\* plain coordinates, the short menu for a request that names an address (once
\* the coordinates are resolved the handlers read only the dates and the city)
FeedsFor(b) == IF plainCoordinates(b) THEN RichFeeds ELSE CoarseFeeds

\* weatherData.daily || weatherData.forecast?.daily || []
allForecastsOf(r) == IF r.daily = Absent THEN <<>> ELSE r.daily[1]

(***************************************************************************)
(* The handler as a state machine.                                         *)
(***************************************************************************)
Init ==
    /\ method = "" /\ variant = "" /\ apiKey = FALSE /\ body = Absent
    /\ pc = "idle"
    /\ latitude = Absent /\ longitude = Absent
    /\ events = <<>>
    /\ geoReply = Absent /\ feed = Absent
    /\ dailyForecasts = <<>>
    /\ sent = <<>>
    /\ escaped = FALSE
    /\ condText = <<>> /\ condSimple = Absent

\* return res.json(payload), return res.status(code).json(payload)
respond(code, payload, before) ==
    /\ sent' = Append(sent, [status |-> code, json |-> payload])
    /\ events' = events \o before \o <<"response">>
    /\ pc' = "done"

\* a request reaches the handler of variant v, the credential being set or not
Receive(m, v, k, b) ==
    /\ pc = "idle"
    /\ method' = m /\ variant' = v /\ apiKey' = k /\ body' = b
    /\ pc' = "entry"
    /\ UNCHANGED <<latitude, longitude, events, geoReply, feed, dailyForecasts, sent,
                   escaped, condText, condSimple>>

\* if (req.method !== 'POST') return res.status(405).json(...)
CheckMethod ==
    /\ pc = "entry"
    /\ IF method # "POST"
       THEN respond(405, [error |-> "Method not allowed"], <<>>)
       ELSE pc' = "try" /\ UNCHANGED <<sent, events>>
    /\ UNCHANGED <<method, variant, apiKey, body, latitude, longitude, geoReply, feed,
                   dailyForecasts, escaped, condText, condSimple>>

\* if (!GOOGLE_WEATHER_API_KEY) throw new Error('API key not configured')
CheckKey ==
    /\ pc = "try"
    /\ pc' = IF apiKey THEN "destructure" ELSE "catch"
    /\ UNCHANGED <<method, variant, apiKey, body, latitude, longitude, events, geoReply,
                   feed, dailyForecasts, sent, escaped, condText, condSimple>>

\* const { check_in_date, ... } = req.body: a TypeError when req.body is undefined
Destructure ==
    /\ pc = "destructure"
    /\ pc' = IF body = Absent THEN "catch" ELSE "validate"
    /\ UNCHANGED <<method, variant, apiKey, body, latitude, longitude, events, geoReply,
                   feed, dailyForecasts, sent, escaped, condText, condSimple>>

\* Validate required fields
Validate ==
    /\ pc = "validate"
    /\ IF missingDates(variant, body[1])
       THEN respond(200, fallbackOf(variant, body[1]), <<>>)
       ELSE pc' = "coords" /\ UNCHANGED <<sent, events>>
    /\ UNCHANGED <<method, variant, apiKey, body, latitude, longitude, geoReply, feed,
                   dailyForecasts, escaped, condText, condSimple>>

\* let latitude = property_latitude; let longitude = property_longitude;
\* if (!latitude || !longitude)
Coords ==
    /\ pc = "coords"
    /\ latitude' = body[1].property_latitude
    /\ longitude' = body[1].property_longitude
    /\ pc' = IF needsGeocode(body[1].property_latitude, body[1].property_longitude)
             THEN "address" ELSE "dates"
    /\ UNCHANGED <<method, variant, apiKey, body, events, geoReply, feed, dailyForecasts,
                   sent, escaped, condText, condSimple>>

\* build addressString; without one respond with the fallback, else fetch(geocodeUrl)
BuildAddress ==
    /\ pc = "address"
    /\ IF addressStringOf(body[1]) = <<>>
       THEN respond(200, fallbackOf(variant, body[1]), <<>>)
       ELSE /\ events' = Append(events, "geocode_call")
            /\ pc' = "await_geocode"
            /\ UNCHANGED sent
    /\ UNCHANGED <<method, variant, apiKey, body, latitude, longitude, geoReply, feed,
                   dailyForecasts, escaped, condText, condSimple>>

\* await fetch(geocodeUrl) and await geocodeResponse.json() settle with reply r
GeocodeReturn(r) ==
    /\ pc = "await_geocode"
    /\ geoReply' = Some(r)
    /\ IF \/ r.outcome = "reject"
          \/ (checksGeocodeOk(variant) /\ ~r.ok)
          \/ ~r.parses
       THEN /\ pc' = "catch"
            /\ events' = Append(events, "geocode_return")
            /\ UNCHANGED <<sent, latitude, longitude>>
       ELSE IF geocodeRefused(r)
       THEN /\ respond(200, fallbackOf(variant, body[1]), <<"geocode_return">>)
            /\ UNCHANGED <<latitude, longitude>>
       ELSE IF ~r.results[1].geometry
       THEN /\ pc' = "catch"
            /\ events' = Append(events, "geocode_return")
            /\ UNCHANGED <<sent, latitude, longitude>>
       ELSE /\ latitude' = Some(r.results[1].lat)
            /\ longitude' = Some(r.results[1].lng)
            /\ pc' = "dates"
            /\ events' = Append(events, "geocode_return")
            /\ UNCHANGED sent
    /\ UNCHANGED <<method, variant, apiKey, body, feed, dailyForecasts, escaped,
                   condText, condSimple>>

\* compute the dates, build weatherUrl, fetch(weatherUrl)
FetchWeather ==
    /\ pc = "dates"
    /\ events' = Append(events, "forecast_call")
    /\ pc' = "await_forecast"
    /\ UNCHANGED <<method, variant, apiKey, body, latitude, longitude, geoReply, feed,
                   dailyForecasts, sent, escaped, condText, condSimple>>

\* await fetch(weatherUrl) and await weatherResponse.json() settle with reply r
ForecastReturn(r) ==
    /\ pc = "await_forecast"
    /\ feed' = Some(r)
    /\ events' = Append(events, "forecast_return")
    /\ pc' = IF r.outcome = "reject" \/ ~r.ok \/ ~r.parses THEN "catch" ELSE "normalize"
    /\ UNCHANGED <<method, variant, apiKey, body, latitude, longitude, geoReply,
                   dailyForecasts, sent, escaped, condText, condSimple>>

\* the multi-day handler builds dailyForecasts; none matched: the fallback
Normalize ==
    /\ pc = "normalize" /\ variant = "multi"
    /\ LET b == body[1]
           checkinDate == b.check_in_date[1]
           numberOfNights == b.check_out_date[1] - checkinDate
           daysToShow == daysToShowOf(numberOfNights)
           allForecasts == allForecastsOf(feed[1])
       IN  IF buildDailyThrows(allForecasts, checkinDate, daysToShow)
           THEN pc' = "catch" /\ UNCHANGED <<dailyForecasts, sent, events>>
           ELSE LET built == buildDaily(allForecasts, checkinDate, 0, daysToShow)
                IN  /\ dailyForecasts' = built
                    /\ IF Len(built) = 0
                       THEN respond(200, fallbackOf(variant, b), <<>>)
                       ELSE pc' = "summarize" /\ UNCHANGED <<sent, events>>
    /\ UNCHANGED <<method, variant, apiKey, body, latitude, longitude, geoReply, feed,
                   escaped, condText, condSimple>>

\* the multi-day handler computes the statistics and responds
Summarize ==
    /\ pc = "summarize"
    /\ respond(200, multiResponse(body[1], dailyForecasts), <<>>)
    /\ UNCHANGED <<method, variant, apiKey, body, latitude, longitude, geoReply, feed,
                   dailyForecasts, escaped, condText, condSimple>>

\* the single-day handler looks up the check-in day and responds
FindCheckin ==
    /\ pc = "normalize" /\ variant = "single"
    /\ LET b == body[1]
           checkinForecast == findDay(allForecastsOf(feed[1]), b.check_in_date[1])
       IN  IF checkinForecast = Absent
           THEN respond(200, fallbackOf(variant, b), <<>>)
           ELSE respond(200, singleResponse(b, checkinForecast[1]), <<>>)
    /\ UNCHANGED <<method, variant, apiKey, body, latitude, longitude, geoReply, feed,
                   dailyForecasts, escaped, condText, condSimple>>

\* catch (error): res.json(getFallbackWeather(req.body.check_in_date, ...)), which
\* itself throws a TypeError when req.body is undefined
Catch ==
    /\ pc = "catch"
    /\ IF body = Absent
       THEN escaped' = TRUE /\ pc' = "done" /\ UNCHANGED <<sent, events>>
       ELSE respond(200, fallbackOf(variant, body[1]), <<>>) /\ UNCHANGED escaped
    /\ UNCHANGED <<method, variant, apiKey, body, latitude, longitude, geoReply, feed,
                   dailyForecasts, condText, condSimple>>

Next ==
    \/ pc = "idle" /\ \E v \in Variants, k \in BOOLEAN :
          \/ Receive("GET", v, k, Absent)
          \/ Receive("POST", v, k, Absent)
          \/ \E b \in Bodies(v) : Receive("POST", v, k, Some(b))
    \/ CheckMethod
    \/ CheckKey
    \/ Destructure
    \/ Validate
    \/ Coords
    \/ BuildAddress
    \/ pc = "await_geocode" /\ \E r \in GeoReplies : GeocodeReturn(r)
    \/ FetchWeather
    \/ pc = "await_forecast" /\ \E r \in FeedsFor(body[1]) : ForecastReturn(r)
    \/ Normalize
    \/ Summarize
    \/ FindCheckin
    \/ Catch

Spec == Init /\ [][Next]_vars

(***************************************************************************)
(* simplifyCondition called directly on a text.                            *)
(***************************************************************************)
\* the fragments the condition texts are made of
Vocabulary ==
    { <<"t","h","u","n","d","e","r","s","t","o","r","m">>,
      <<"T","h","u","n","d","e","r","s","t","o","r","m">>,
      <<"T","H","U","N","D","E","R","S","T","O","R","M">>,
      <<"l","i","g","h","t"," ","r","a","i","n">>,
      <<" ","w","i","t","h"," ">>,
      <<"r","a","i","n">>,
      <<"S","h","o","w","e","r","s">>,
      <<"s","n","o","w">>,
      <<"w","i","n","d","y">>,
      <<"h","a","i","l">>,
      <<"C","l","o","u","d","y">>,
      <<"n","i","c","e">>,
      <<"d","r","y">> }

\* the text grows by one fragment
AddFragment(f) ==
    /\ pc = "text" /\ condSimple = Absent
    /\ Len(condText) < MaxFragments
    /\ condText' = Append(condText, f)
    /\ UNCHANGED <<method, variant, apiKey, body, pc, latitude, longitude, events, geoReply,
                   feed, dailyForecasts, sent, escaped, condSimple>>

\* the fragments of a text, joined
RECURSIVE joined(_)
joined(fragments) ==
    IF fragments = <<>> THEN <<>> ELSE fragments[1] \o joined(Tail(fragments))

\* simplifyCondition(text), text being the fragments joined
Classify ==
    /\ pc = "text" /\ condSimple = Absent
    /\ condSimple' = Some(simplifyCondition(joined(condText)))
    /\ UNCHANGED <<method, variant, apiKey, body, pc, latitude, longitude, events, geoReply,
                   feed, dailyForecasts, sent, escaped, condText>>

InitCond ==
    /\ method = "" /\ variant = "" /\ apiKey = FALSE /\ body = Absent
    /\ pc = "text"
    /\ latitude = Absent /\ longitude = Absent
    /\ events = <<>>
    /\ geoReply = Absent /\ feed = Absent
    /\ dailyForecasts = <<>>
    /\ sent = <<>>
    /\ escaped = FALSE
    /\ condText = <<>> /\ condSimple = Absent

NextCond ==
    \/ \E f \in Vocabulary : AddFragment(f)
    \/ Classify

SpecCond == InitCond /\ [][NextCond]_vars

(***************************************************************************)
(* Properties.                                                             *)
(***************************************************************************)
\* the handling of a POST request has come to its end
postDone == pc = "done" /\ method = "POST"

\* the JSON sent, when one response was sent
payload == sent[1].json

\* p is the fallback payload
isFallback(p) ==
    /\ "fallback" \in DOMAIN p /\ p.fallback = TRUE
    /\ p.success = FALSE /\ p.show_weather = FALSE

\* p is the full forecast payload
isForecast(p) ==
    /\ "fallback" \notin DOMAIN p
    /\ p.success = TRUE /\ p.show_weather = TRUE

\* the multi-day handler answered a POST request with its success response
multiSuccess ==
    /\ postDone /\ variant = "multi"
    /\ Len(sent) = 1 /\ isForecast(payload)

\* the outbound calls issued so far, in order
callsIssued == SelectSeq(events, LAMBDA e : e \in {"geocode_call", "forecast_call"})

\* C1: every POST request handled ends with exactly one JSON response of
\* status 200 that is the forecast payload or the fallback payload, and no
\* exception leaves the handler.
C1_AlwaysOneJsonResponse ==
    postDone =>
        /\ ~escaped
        /\ Len(sent) = 1
        /\ sent[1].status = 200
        /\ (isForecast(payload) \/ isFallback(payload))

\* the request lacks check_in_date (for the multi-day handler also
\* check_out_date), or has no usable coordinates and nothing an address
\* string can be built from
lacksInput ==
    \/ body = Absent
    \/ body[1].check_in_date = Absent
    \/ (variant = "multi" /\ body[1].check_out_date = Absent)
    \/ /\ (~TruthyNum(body[1].property_latitude) \/ ~TruthyNum(body[1].property_longitude))
       /\ body[1].property_address = Absent
       /\ body[1].property_city = Absent
       /\ body[1].property_zip_code = Absent

\* the response is the fallback payload without daily_forecasts, and no
\* collaborator was called
failedClosed ==
    /\ Len(sent) = 1
    /\ isFallback(payload)
    /\ "daily_forecasts" \notin DOMAIN payload
    /\ callsIssued = <<>>

\* C2: a POST request that lacks check_in_date (multi-day: or check_out_date),
\* or lacks usable coordinates and anything to build an address from, gets the
\* fallback payload without daily_forecasts, and no collaborator is called.
C2_ValidationFailsClosed == (postDone /\ lacksInput) => failedClosed

\* C2, for the requests that carry a body object: the same statement.
C2_ValidationFailsClosedWithBody == (postDone /\ body # Absent /\ lacksInput) => failedClosed

\* the request has both dates and present, non-zero coordinates, and the
\* forecast fetch succeeded
coordsAndFeed ==
    /\ postDone /\ variant = "multi" /\ body # Absent
    /\ body[1].check_in_date # Absent /\ body[1].check_out_date # Absent
    /\ TruthyNum(body[1].property_latitude) /\ TruthyNum(body[1].property_longitude)
    /\ feed # Absent
    /\ feed[1].outcome = "response" /\ feed[1].ok /\ feed[1].parses

\* the number of nights of the request
nightsRequested == body[1].check_out_date[1] - body[1].check_in_date[1]

\* the days of the stay that have an entry in the provider's list, among the
\* first n days
matchedDays(n) ==
    { d \in body[1].check_in_date[1]..(body[1].check_in_date[1] + n - 1) :
        \E k \in DOMAIN allForecastsOf(feed[1]) : allForecastsOf(feed[1])[k].date = d }

matchedAreText(n) ==
    \A k \in DOMAIN allForecastsOf(feed[1]) :
        (/\ allForecastsOf(feed[1])[k].date \in matchedDays(n)
         /\ \A j \in 1..(k - 1) :
               allForecastsOf(feed[1])[j].date # allForecastsOf(feed[1])[k].date)
        => isString(conditionOf(allForecastsOf(feed[1])[k]))

C4_LowAtMostHigh ==
    multiSuccess =>
        \A k \in DOMAIN payload.daily_forecasts :
            payload.daily_forecasts[k].temp_low <= payload.daily_forecasts[k].temp_high

\* C5: in every response of the multi-day handler, success or fallback,
\* packing_recommendations has at most 5 items, no two of them equal.
C5_PackingAtMostFiveDistinct ==
    (postDone /\ variant = "multi" /\ Len(sent) = 1) =>
        /\ "packing_recommendations" \in DOMAIN payload
        /\ Len(payload.packing_recommendations) <= 5
        /\ \A i, j \in DOMAIN payload.packing_recommendations :
              payload.packing_recommendations[i] = payload.packing_recommendations[j] => i = j

\* C5 witness: a success response whose list was cut down to 5 items.
C5_Witness ==
    /\ multiSuccess
    /\ Len(payload.packing_recommendations) = 5
    /\ Len(packingItems(payload.stats.max_high, payload.stats.min_low,
                        payload.stats.avg_precipitation, payload.daily_forecasts)) > 5

\* the text simplifyCondition was called on, and its lower-case form
textGiven == joined(condText)

lowerGiven == toLowerCase(textGiven)

\* every keyword simplifyCondition looks for
Keywords ==
    { kw_rain, kw_drizzle, kw_shower, kw_snow, kw_sleet, kw_ice, kw_thunder, kw_storm,
      kw_cloud, kw_overcast, kw_clear, kw_sunny, kw_partly, kw_mostly, kw_fog, kw_mist,
      kw_haze }

\* "light rain" is Rainy; a text with no keyword is Partly Cloudy
lightRainAndDefault ==
    /\ textGiven = <<"l","i","g","h","t"," ","r","a","i","n">> => condSimple[1] = Rainy
    /\ (\A k \in Keywords : ~includes(lowerGiven, k)) => condSimple[1] = PartlyCloudy

\* C6 as stated: every text containing "thunderstorm" in any letter case is
\* Stormy, "light rain" is Rainy, a text with no keyword is Partly Cloudy.
C6_ThunderstormIsStormy ==
    condSimple # Absent =>
        /\ includes(lowerGiven, kw_thunder \o kw_storm) => condSimple[1] = Stormy
        /\ lightRainAndDefault

\* C6 amended: every text containing "thunderstorm" in any letter case and
\* none of rain, drizzle, shower, snow, sleet, ice is Stormy (those six are
\* tried first and win); "light rain" is Rainy; a text with no keyword is
\* Partly Cloudy.
C6_ThunderstormWithoutEarlierKeyword ==
    condSimple # Absent =>
        /\ (/\ includes(lowerGiven, kw_thunder \o kw_storm)
            /\ \A k \in {kw_rain, kw_drizzle, kw_shower, kw_snow, kw_sleet, kw_ice} :
                  ~includes(lowerGiven, k))
           => condSimple[1] = Stormy
        /\ lightRainAndDefault

\* C6 witness: a text with THUNDERSTORM in capitals was classified Stormy.
C6_Witness ==
    /\ condSimple = Some(Stormy)
    /\ includes(textGiven, <<"T","H","U","N","D","E","R","S","T","O","R","M">>)
    /\ Len(condText) = 2

\* the number of entries of xs whose precipitation_chance is above limit
RECURSIVE countAbove(_, _)
countAbove(xs, limit) ==
    IF xs = <<>> THEN 0
    ELSE (IF xs[1].precipitation_chance > limit THEN 1 ELSE 0) + countAbove(Tail(xs), limit)

\* C7: in every success response stats.rainy_days is the number of daily
\* forecasts whose precipitation_chance is strictly above 40.
C7_RainyDaysAbove40 ==
    multiSuccess => payload.stats.rainy_days = countAbove(payload.daily_forecasts, 40)

\* C7 witness: a success with a day at exactly 40 and a day at 41, one rainy day.
C7_Witness ==
    /\ multiSuccess
    /\ \E k \in DOMAIN payload.daily_forecasts :
          payload.daily_forecasts[k].precipitation_chance = 40
    /\ \E k \in DOMAIN payload.daily_forecasts :
          payload.daily_forecasts[k].precipitation_chance = 41
    /\ payload.stats.rainy_days = 1

\* C8: the outbound calls of one handling are none, <forecast>, <geocode> or
\* <geocode, forecast>; the forecast call starts after the geocoding call has
\* returned; geocoding is called only when latitude or longitude is absent or
\* zero; nothing is called without the credential or after the response.
C8_CallSequence ==
    /\ callsIssued \in { <<>>, <<"forecast_call">>, <<"geocode_call">>,
                         <<"geocode_call", "forecast_call">> }
    /\ \A i \in DOMAIN events :
          events[i] = "forecast_call" =>
              \A j \in 1..(i - 1) :
                  events[j] = "geocode_call" =>
                      \E m \in (j + 1)..(i - 1) : events[m] = "geocode_return"
    /\ callsIssued # <<>> /\ callsIssued[1] = "geocode_call" =>
          (~TruthyNum(body[1].property_latitude) \/ ~TruthyNum(body[1].property_longitude))
    /\ ~apiKey => callsIssued = <<>>
    /\ \A i \in DOMAIN events :
          events[i] = "response" =>
              \A j \in (i + 1)..Len(events) :
                  events[j] \notin {"geocode_call", "forecast_call"}

\* C8 witness: geocoding was called and returned, then the forecast was
\* called and returned, then the response was sent.
C8_Witness ==
    events = <<"geocode_call", "geocode_return", "forecast_call", "forecast_return", "response">>

\* C9: when the geocoding lookup returns a non-success HTTP status, or a body
\* whose status is not "OK", or no result, the handler (either one) responds
\* with the fallback payload and does not call the forecast collaborator.
C9_GeocodeFailureFallsBack ==
    (/\ postDone /\ geoReply # Absent
     /\ geoReply[1].outcome = "response"
     /\ \/ ~geoReply[1].ok
        \/ geoReply[1].parses /\ (geoReply[1].status # "OK" \/ geoReply[1].results = <<>>)) =>
        /\ Len(sent) = 1 /\ isFallback(payload)
        /\ \A i \in DOMAIN events : events[i] # "forecast_call"

\* the clause the priority rule asks for
expectedClause(forecasts, avgPrecip) ==
    IF Cardinality({forecasts[k].condition_simple : k \in DOMAIN forecasts}) = 1
    THEN toLowerCase(forecasts[1].condition_simple)
    ELSE IF avgPrecip > 50 THEN <<"m","o","s","t","l","y"," ","r","a","i","n","y">>
    ELSE IF avgPrecip > 30
         THEN <<"m","i","x","e","d"," ","w","i","t","h"," ","s","o","m","e"," ","r","a","i","n">>
    ELSE <<"p","l","e","a","s","a","n","t">>

\* C10: in every success response of the multi-day handler the summary names
\* the city of location.city, the number of nights and the range avg_low to
\* avg_high, and its clause follows the priority rule.
C10_SummaryNamesCity ==
    multiSuccess =>
        /\ payload.summary.city = payload.location.city
        /\ payload.summary.nights = payload.stats.number_of_nights
        /\ payload.summary.low = payload.stats.avg_low
        /\ payload.summary.high = payload.stats.avg_high
        /\ payload.summary.clause =
              expectedClause(payload.daily_forecasts, payload.stats.avg_precipitation)

\* C10, for the requests that supply property_city: the same statement.
C10_SummaryNamesCityWhenGiven ==
    (multiSuccess /\ TruthyStr(body[1].property_city)) =>
        /\ payload.summary.city = payload.location.city
        /\ payload.summary.nights = payload.stats.number_of_nights
        /\ payload.summary.low = payload.stats.avg_low
        /\ payload.summary.high = payload.stats.avg_high
        /\ payload.summary.clause =
              expectedClause(payload.daily_forecasts, payload.stats.avg_precipitation)

\* C11: in every success response of the multi-day handler is_checkout is
\* true on the last entry of daily_forecasts and on no other entry, also when
\* days of the stay without a forecast entry were left out.
C11_CheckoutOnLastEntryOnly ==
    multiSuccess =>
        \A k \in DOMAIN payload.daily_forecasts :
            payload.daily_forecasts[k].is_checkout = (k = Len(payload.daily_forecasts))

\* C11, what the code does keep: is_checkout is true on no entry but the last
\* one, and on that one exactly when it is day min(nights, 7) of the stay.
C11_CheckoutOnlyOnLastWindowDay ==
    multiSuccess =>
        \A k \in DOMAIN payload.daily_forecasts :
            payload.daily_forecasts[k].is_checkout =
                (/\ k = Len(payload.daily_forecasts)
                 /\ payload.daily_forecasts[k].date =
                        body[1].check_in_date[1] + Min(nightsRequested, 7) - 1)

====
